---- MODULE Spec2Model ----
(***************************************************************************)
(* Model of the snake engine (src/snake/game.rs, src/snake/common.rs).     *)
(* The engine state is the struct SnakeGame; one action per public method  *)
(* (play, snapshot).  Coordinates are usize: they are kept modulo          *)
(* UsizeModulus so that the wrap of 0 - 1 in move_head is visible.         *)
(***************************************************************************)
EXTENDS Integers, Sequences, FiniteSets, TLC

\* ------------------------------------------------------------------ bounds
\* width of usize in the model (the code has 64; the wrap is what matters)
UsizeBits == 4
\* number of play calls explored from a level
MaxPlays == 6

UsizeModulus == 2 ^ UsizeBits

\* ------------------------------------------------------- common.rs types
Direction == {"Up", "Left", "Right", "Down"}

PositionNew(x, y) == [x |-> x, y |-> y]

\* Direction::allows with every reversal accepted
allows_any(self, d) == TRUE

\* Direction::allows: false exactly for the four opposite pairs
allows(self, d) ==
    ~ (<<self, d>> \in { <<"Up", "Down">>, <<"Left", "Right">>,
                         <<"Right", "Left">>, <<"Down", "Up">> })

\* ------------------------------------------------------------ the levels
\* grid of the unit tests' create_game: 9 columns, 8 rows, walled border
RingRows(w, h) ==
    [r \in 1..h |-> [c \in 1..w |->
        IF r = 1 \/ r = h \/ c = 1 \/ c = w THEN "Wall" ELSE "Empty"]]

OpenRows(w, h) == [r \in 1..h |-> [c \in 1..w |-> "Empty"]]

\* what from_str builds from a level text: dimension is
\* (length of the first row, number of rows)
FromStr(rows, snake, foodPos) ==
    [ map        |-> [rows |-> rows, dimension |-> <<Len(rows[1]), Len(rows)>>],
      snake_head |-> Head(snake),
      snake_body |-> Tail(snake),
      food       |-> foodPos ]

\* tests::create_game
LevelTest ==
    FromStr(RingRows(9, 8),
            <<PositionNew(2, 2), PositionNew(2, 1)>>, PositionNew(4, 4))

\* a wide grid without walls, food next to the head
LevelWide ==
    FromStr(OpenRows(4, 2),
            <<PositionNew(1, 0), PositionNew(0, 0)>>, PositionNew(1, 1))

\* a tall grid without walls, the snake is only its head
LevelTall ==
    FromStr(OpenRows(2, 3), <<PositionNew(0, 0)>>, PositionNew(0, 1))

\* a 3x3 grid with one inner wall at (2,1) and a snake of five segments
LevelLong ==
    FromStr([r \in 1..3 |-> [c \in 1..3 |->
                IF r = 2 /\ c = 3 THEN "Wall" ELSE "Empty"]],
            <<PositionNew(2, 0), PositionNew(1, 0), PositionNew(0, 0),
              PositionNew(0, 1), PositionNew(0, 2)>>,
            PositionNew(1, 2))

Levels == {LevelTest, LevelWide, LevelTall, LevelLong}

\* ------------------------------------------------------- the level text
\* A level text is a sequence of lines, a line a sequence of characters.
DigitChars == <<"0", "1", "2", "3", "4", "5", "6", "7", "8", "9">>

IsDigit(c) == \E i \in 1..10 : DigitChars[i] = c

DigitValue(c) == (CHOOSE i \in 1..10 : DigitChars[i] = c) - 1

RECURSIVE DecimalValue(_)
DecimalValue(cs) ==
    IF Len(cs) = 0 THEN 0
    ELSE DecimalValue(SubSeq(cs, 1, Len(cs) - 1)) * 10
           + DigitValue(cs[Len(cs)])

\* str::parse::<usize>: an optional "+", then one or more digits, and the
\* value must fit usize
ParseUsize(cs) ==
    LET digits == IF Len(cs) > 0 /\ cs[1] = "+" THEN Tail(cs) ELSE cs
        wellFormed == /\ Len(digits) > 0
                      /\ \A i \in 1..Len(digits) : IsDigit(digits[i])
        fits == wellFormed /\ DecimalValue(digits) < UsizeModulus
    IN  [ok |-> fits, value |-> IF fits THEN DecimalValue(digits) ELSE 0]

\* str::split_once: split at the first separator
SplitOnce(cs, sep) ==
    IF \E i \in 1..Len(cs) : cs[i] = sep
    THEN LET i == CHOOSE k \in 1..Len(cs) :
                      /\ cs[k] = sep
                      /\ \A j \in 1..(k - 1) : cs[j] # sep
         IN  [ok |-> TRUE, left |-> SubSeq(cs, 1, i - 1),
              right |-> SubSeq(cs, i + 1, Len(cs))]
    ELSE [ok |-> FALSE, left |-> <<>>, right |-> <<>>]

\* str::split: all the pieces between separators
RECURSIVE Split(_, _)
Split(cs, sep) ==
    LET t == SplitOnce(cs, sep)
    IN  IF t.ok THEN <<t.left>> \o Split(t.right, sep) ELSE <<cs>>

\* "x,y" read as Position::new(y, x)
ParsePosition_swapped(cs) ==
    LET t == SplitOnce(cs, ",")
        a == ParseUsize(t.left)
        b == ParseUsize(t.right)
    IN  [ok |-> t.ok /\ a.ok /\ b.ok,
         position |-> PositionNew(b.value, a.value)]

\* "x,y": split_once(',') and two parses, Position::new(t.0, t.1)
ParsePosition(cs) ==
    LET t == SplitOnce(cs, ",")
        a == ParseUsize(t.left)
        b == ParseUsize(t.right)
    IN  [ok |-> t.ok /\ a.ok /\ b.ok,
         position |-> PositionNew(a.value, b.value)]

IsNonEmpty(line) == Len(line) > 0

\* the value of a failed from_str (an unwrap or the match panicked)
NoGame ==
    [ ok         |-> FALSE,
      map        |-> [rows |-> <<>>, dimension |-> <<0, 0>>],
      snake_head |-> PositionNew(0, 0),
      snake_body |-> <<>>,
      food       |-> PositionNew(0, 0) ]

\* SnakeGame::from_str: the non-empty lines are the dimension, h rows of
\* which the first w characters are taken, the food and the snake; every
\* unwrap and the match of a character other than ' ' and 'w' panic.
from_str(text) ==
    LET lines == SelectSeq(text, IsNonEmpty)
        n == Len(lines)
        dim == IF n >= 1 THEN ParsePosition(lines[1])
               ELSE [ok |-> FALSE, position |-> PositionNew(0, 0)]
        w == dim.position.x
        h == dim.position.y
        taken(r) == IF Len(lines[1 + r]) < w THEN Len(lines[1 + r]) ELSE w
        rowsOk == /\ dim.ok
                  /\ n >= 1 + h
                  /\ \A r \in 1..h : \A c \in 1..taken(r) :
                         lines[1 + r][c] \in {" ", "w"}
        rows == [r \in 1..h |-> [c \in 1..taken(r) |->
                    IF lines[1 + r][c] = "w" THEN "Wall" ELSE "Empty"]]
        foodPos == IF rowsOk /\ n >= h + 2 THEN ParsePosition(lines[h + 2])
                   ELSE [ok |-> FALSE, position |-> PositionNew(0, 0)]
        pieces == IF foodPos.ok /\ n >= h + 3 THEN Split(lines[h + 3], ";")
                  ELSE <<>>
        snakeOk == /\ Len(pieces) > 0
                   /\ \A i \in 1..Len(pieces) : ParsePosition(pieces[i]).ok
        snake == [i \in 1..Len(pieces) |-> ParsePosition(pieces[i]).position]
    IN  IF snakeOk /\ h >= 1
        THEN [ok |-> TRUE] @@ FromStr(rows, snake, foodPos.position)
        ELSE NoGame

\* ---------------------------------------------------- the declared levels
\* A declared level: the numbers and rows a level text is written from.
RECURSIVE Decimal(_)
Decimal(n) ==
    IF n < 10 THEN <<DigitChars[n + 1]>>
    ELSE Decimal(n \div 10) \o <<DigitChars[(n % 10) + 1]>>

PositionText(p) == Decimal(p.x) \o <<",">> \o Decimal(p.y)

RECURSIVE SnakeText(_)
SnakeText(snake) ==
    IF Len(snake) = 1 THEN PositionText(snake[1])
    ELSE PositionText(snake[1]) \o <<";">> \o SnakeText(Tail(snake))

\* the text of a declared level, laid out as the literal of create_game:
\* an empty first line, "w,h", the rows, "food_x,food_y", "x,y;x,y;..."
LevelText(d) ==
    <<<<>>, Decimal(d.w) \o <<",">> \o Decimal(d.h)>>
      \o d.rows
      \o <<PositionText(d.food), SnakeText(d.snake)>>

Declared(w, h, rows, snake, foodPos) ==
    [w |-> w, h |-> h, rows |-> rows, snake |-> snake, food |-> foodPos]

RingText(w, h) ==
    [r \in 1..h |-> [c \in 1..w |->
        IF r = 1 \/ r = h \/ c = 1 \/ c = w THEN "w" ELSE " "]]

OpenText(w, h) == [r \in 1..h |-> [c \in 1..w |-> " "]]

DeclaredTest ==
    Declared(9, 8, RingText(9, 8),
             <<PositionNew(2, 2), PositionNew(2, 1)>>, PositionNew(4, 4))

DeclaredWide ==
    Declared(4, 2, OpenText(4, 2),
             <<PositionNew(1, 0), PositionNew(0, 0)>>, PositionNew(1, 1))

DeclaredTall ==
    Declared(2, 3, OpenText(2, 3), <<PositionNew(0, 0)>>, PositionNew(0, 1))

DeclaredLong ==
    Declared(3, 3,
             [r \in 1..3 |-> [c \in 1..3 |->
                 IF r = 2 /\ c = 3 THEN "w" ELSE " "]],
             <<PositionNew(2, 0), PositionNew(1, 0), PositionNew(0, 0),
               PositionNew(0, 1), PositionNew(0, 2)>>,
             PositionNew(1, 2))

DeclaredLevels == {DeclaredTest, DeclaredWide, DeclaredTall, DeclaredLong}

\* ------------------------------------------------------------- the state
VARIABLES
    driver,          \* the resources and events of SnakePlugin
    level,           \* the declared level whose text from_str is given
    map,             \* SnakeGame.map: rows of cells and dimension
    snake_head,      \* SnakeGame.snake_head
    snake_body,      \* SnakeGame.snake_body, neck to tail
    food,            \* SnakeGame.food
    direction,       \* SnakeGame.direction
    increment_size,  \* SnakeGame.increment_size
    result,          \* value returned by the last play call
    snap,            \* value returned by the last snapshot call
    arg,             \* direction passed to the last play call
    plays,           \* number of play calls made
    eaten            \* number of play calls that returned food_ate = true

vars == <<driver, level, map, snake_head, snake_body, food, direction, increment_size,
          result, snap, arg, plays, eaten>>

Range(s) == {s[i] : i \in 1..Len(s)}

NoPosition == PositionNew(0, 0)

\* Result<SnakeGameSnapshot, SnakeError> and "no call yet"
NoResult == [kind |-> "None", position |-> NoPosition, snake |-> <<>>,
             food |-> NoPosition, food_ate |-> FALSE]

Err(kind, p) == [kind |-> kind, position |-> p, snake |-> <<>>,
                 food |-> NoPosition, food_ate |-> FALSE]

\* ------------------------------------------------------ game.rs helpers
dimension(m) == m.dimension

\* on_walls without the bounds test on y
on_walls_no_y(m, p) ==
    \/ p.x >= m.dimension[1]
    \/ m.rows[(p.y % m.dimension[2]) + 1][p.x + 1] = "Wall"

\* on_walls: the grid is indexed only when both bounds tests fail
on_walls(m, p) ==
    \/ p.x >= m.dimension[1]
    \/ p.y >= m.dimension[2]
    \/ m.rows[p.y + 1][p.x + 1] = "Wall"

\* snapshot_with_food_ate with the head left out
snapshot_without_head(h, body, f, food_ate) ==
    [kind |-> "Ok", position |-> NoPosition, snake |-> body,
     food |-> f, food_ate |-> food_ate]

\* snapshot_with_food_ate that always reports food_ate = false
snapshot_never_ate(h, body, f, food_ate) ==
    [kind |-> "Ok", position |-> NoPosition, snake |-> <<h>> \o body,
     food |-> f, food_ate |-> FALSE]

\* snapshot_with_food_ate: the body with the head inserted at index 0
snapshot_with_food_ate(h, body, f, food_ate) ==
    [kind |-> "Ok", position |-> NoPosition, snake |-> <<h>> \o body,
     food |-> f, food_ate |-> food_ate]

\* on_food that never reports food
on_food_never(f, p) == FALSE

on_food(f, p) == p = f

\* on_snake_body that looks at the neck only
on_snake_body_neck(body, p) == Len(body) > 0 /\ body[1] = p

on_snake_body(body, p) == p \in Range(body)

\* move_head with Left and Right exchanged
move_head_swapped(h, d) ==
    LET dx == CASE d = "Left" -> 1 [] d = "Right" -> -1 [] OTHER -> 0
        dy == CASE d = "Up" -> 1 [] d = "Down" -> -1 [] OTHER -> 0
    IN  PositionNew((h.x + dx + UsizeModulus) % UsizeModulus,
                    (h.y + dy + UsizeModulus) % UsizeModulus)

\* move_head: (x as isize + dx) as usize, i.e. addition modulo 2^w
move_head(h, d) ==
    LET dx == CASE d = "Left" -> -1 [] d = "Right" -> 1 [] OTHER -> 0
        dy == CASE d = "Up" -> 1 [] d = "Down" -> -1 [] OTHER -> 0
    IN  PositionNew((h.x + dx + UsizeModulus) % UsizeModulus,
                    (h.y + dy + UsizeModulus) % UsizeModulus)

\* move_body that keeps the tail on every tick
move_body_keep_tail(h, body, inc) ==
    [snake_body |-> <<h>> \o body,
     increment_size |-> IF inc > 0 THEN inc - 1 ELSE inc]

\* move_body that drops the tail also while growing
move_body_no_growth(h, body, inc) ==
    IF inc > 0
    THEN [snake_body |-> IF Len(body) = 0 THEN body
                         ELSE <<h>> \o SubSeq(body, 1, Len(body) - 1),
          increment_size |-> inc - 1]
    ELSE IF Len(body) = 0
         THEN [snake_body |-> body, increment_size |-> inc]
         ELSE [snake_body |-> <<h>> \o SubSeq(body, 1, Len(body) - 1),
               increment_size |-> inc]

\* move_body: grow at the front while increment_size > 0, otherwise pop the
\* tail and reinsert it at the front with the head's coordinates
move_body(h, body, inc) ==
    IF inc > 0
    THEN [snake_body |-> <<h>> \o body, increment_size |-> inc - 1]
    ELSE IF Len(body) = 0
         THEN [snake_body |-> body, increment_size |-> inc]
         ELSE [snake_body |-> <<h>> \o SubSeq(body, 1, Len(body) - 1),
               increment_size |-> inc]

\* create_new_food without the wall test
create_new_food_no_walls(m, h, body) ==
    { p \in { PositionNew(x, y) : x \in 0..(m.dimension[2] - 1),
                                  y \in 0..(m.dimension[1] - 1) } :
        /\ ~ on_snake_body(body, p)
        /\ h # p }

\* create_new_food without the test against the body
create_new_food_on_body(m, h, body) ==
    { p \in { PositionNew(x, y) : x \in 0..(m.dimension[2] - 1),
                                  y \in 0..(m.dimension[1] - 1) } :
        /\ ~ on_walls(m, p)
        /\ h # p }

\* create_new_food: the positions the retry loop can break with.  y is
\* drawn from 0..dimension.0 and x from 0..dimension.1, as the code does.
create_new_food(m, h, body) ==
    { p \in { PositionNew(x, y) : x \in 0..(m.dimension[2] - 1),
                                  y \in 0..(m.dimension[1] - 1) } :
        /\ ~ on_snake_body(body, p)
        /\ ~ on_walls(m, p)
        /\ h # p }

\* ---------------------------------------------------------------- Init
\* the engine constructed from the text of the declared level d
InitLevel(d) ==
    LET l == from_str(LevelText(d))
    IN  /\ level = d
        /\ l.ok
        /\ map = l.map
        /\ snake_head = l.snake_head
        /\ snake_body = l.snake_body
        /\ food = l.food
        /\ direction = "Up"
        /\ increment_size = 0
        /\ result = NoResult
        /\ snap = NoResult
        /\ arg = "Up"
        /\ plays = 0
        /\ eaten = 0

\* the engine on its own: no plugin is built
NoDriver ==
    [ current_direction |-> "Up", keys |-> <<>>, ticks |-> 0,
      paused |-> FALSE, snapshot |-> NoResult, game_over_events |-> <<>>,
      unread |-> 0, ran |-> {}, frames |-> 0 ]

Init == (\E d \in DeclaredLevels : InitLevel(d)) /\ driver = NoDriver

\* ------------------------------------------------------------- actions
\* The body of SnakeGame::play for the argument d.  When food is eaten and
\* the retry loop of create_new_food has no position to break with, the call
\* never returns and the action is not enabled.
PlayBody(d) ==
    LET dir == IF ~ allows(direction, d) THEN direction ELSE d
        mb  == move_body(snake_head, snake_body, increment_size)
        nh  == move_head(snake_head, dir)
    IN  /\ plays < MaxPlays
        /\ plays' = plays + 1
        /\ snake_body' = mb.snake_body
        /\ snake_head' = nh
        /\ IF on_walls(map, nh)
           THEN /\ result' = Err("OnWall", nh)
                /\ increment_size' = mb.increment_size
                /\ UNCHANGED <<food, direction>>
           ELSE IF on_snake_body(mb.snake_body, nh)
           THEN /\ result' = Err("OnSnake", nh)
                /\ increment_size' = mb.increment_size
                /\ UNCHANGED <<food, direction>>
           ELSE IF on_food(food, nh)
           THEN /\ increment_size' = 1
                /\ food' \in create_new_food(map, nh, mb.snake_body)
                /\ direction' = dir
                /\ result' = snapshot_with_food_ate(nh, mb.snake_body,
                                                     food', TRUE)
           ELSE /\ increment_size' = mb.increment_size
                /\ food' = food
                /\ direction' = dir
                /\ result' = snapshot_with_food_ate(nh, mb.snake_body,
                                                     food, FALSE)
        /\ eaten' = IF result'.kind = "Ok" /\ result'.food_ate
                    THEN eaten + 1 ELSE eaten
        /\ UNCHANGED <<level, map, snap>>

\* a call play(d)
Play(d) ==
    /\ PlayBody(d)
    /\ arg' = d
    /\ UNCHANGED driver

\* SnakeGame::snapshot
Snapshot ==
    /\ snap' = snapshot_with_food_ate(snake_head, snake_body, food, FALSE)
    /\ UNCHANGED <<driver, level, map, snake_head, snake_body, food,
                   direction, increment_size, result, arg, plays, eaten>>

Next ==
    \/ \E d \in Direction : Play(d)
    \/ Snapshot

Spec == Init /\ [][Next]_vars

\* ------------------------------------------ play with its retry loop
\* SnakeGame::play up to the call of create_new_food: as PlayBody, but when
\* the head lands on the food the call stays inside create_new_food
\* (result "InFoodLoop") with increment_size already set to 1 and neither
\* food nor direction assigned yet.
PlayStart(d) ==
    LET dir == IF ~ allows(direction, d) THEN direction ELSE d
        mb  == move_body(snake_head, snake_body, increment_size)
        nh  == move_head(snake_head, dir)
    IN  /\ result.kind # "InFoodLoop"
        /\ plays < MaxPlays
        /\ plays' = plays + 1
        /\ arg' = d
        /\ snake_body' = mb.snake_body
        /\ snake_head' = nh
        /\ IF on_walls(map, nh)
           THEN /\ result' = Err("OnWall", nh)
                /\ increment_size' = mb.increment_size
                /\ UNCHANGED <<food, direction>>
           ELSE IF on_snake_body(mb.snake_body, nh)
           THEN /\ result' = Err("OnSnake", nh)
                /\ increment_size' = mb.increment_size
                /\ UNCHANGED <<food, direction>>
           ELSE IF on_food(food, nh)
           THEN /\ increment_size' = 1
                /\ result' = Err("InFoodLoop", nh)
                /\ UNCHANGED <<food, direction>>
           ELSE /\ increment_size' = mb.increment_size
                /\ food' = food
                /\ direction' = dir
                /\ result' = snapshot_with_food_ate(nh, mb.snake_body,
                                                     food, FALSE)
        /\ UNCHANGED <<driver, level, map, snap, eaten>>

\* One iteration of the loop of create_new_food with the draws y (from
\* 0..dimension.0) and x (from 0..dimension.1), and, when the position is
\* accepted, the rest of play.  A rejected position is only remembered as
\* the local variable position (kept in result.position) and the loop goes
\* on.
FoodDraw(x, y) ==
    LET position == PositionNew(x, y)
        dir == IF ~ allows(direction, arg) THEN direction ELSE arg
    IN  /\ result.kind = "InFoodLoop"
        /\ y \in 0..(map.dimension[1] - 1)
        /\ x \in 0..(map.dimension[2] - 1)
        /\ IF \/ on_snake_body(snake_body, position)
              \/ on_walls(map, position)
              \/ snake_head = position
           THEN /\ result' = Err("InFoodLoop", position)
                /\ UNCHANGED <<food, direction, eaten>>
           ELSE /\ food' = position
                /\ direction' = dir
                /\ eaten' = eaten + 1
                /\ result' = snapshot_with_food_ate(snake_head, snake_body,
                                                     position, TRUE)
        /\ UNCHANGED <<driver, level, map, snake_head, snake_body,
                       increment_size, snap, arg, plays>>

\* snapshot() cannot be called while play is running
SnapshotBetweenPlays ==
    /\ result.kind # "InFoodLoop"
    /\ Snapshot

\* any iteration of the loop: fastrand::usize(0..dimension.0) for y and
\* fastrand::usize(0..dimension.1) for x
FoodLoop ==
    \E y \in 0..(map.dimension[1] - 1), x \in 0..(map.dimension[2] - 1) :
        FoodDraw(x, y)

NextLoop ==
    \/ \E d \in Direction : PlayStart(d)
    \/ FoodLoop
    \/ SnapshotBetweenPlays

\* an iteration that leaves the loop
FoodAccepted == FoodLoop /\ result'.kind = "Ok"

\* The loop keeps iterating while play is inside it, and the random source
\* is fair: while some position of the range of the draws is accepted, an
\* accepted position is eventually drawn.
LoopSpec ==
    Init /\ [][NextLoop]_vars /\ WF_vars(FoodLoop) /\ WF_vars(FoodAccepted)

\* ------------------------------------------------- levels of edge cases
\* from_str places the food wherever the text says.  The 3x3 grid of
\* DeclaredLong with a two-cell snake and the food on its only Wall cell:
DeclaredFoodOnWall ==
    Declared(3, 3, DeclaredLong.rows,
             <<PositionNew(1, 1), PositionNew(0, 1)>>, PositionNew(2, 1))

\* An open 3x2 grid where the snake eats with play(Left) and then has its
\* own tail below the head:
DeclaredSquare ==
    Declared(3, 2, OpenText(3, 2),
             <<PositionNew(2, 1), PositionNew(2, 0), PositionNew(1, 0),
               PositionNew(0, 0)>>,
             PositionNew(1, 1))

EdgeLevels == {DeclaredWide, DeclaredFoodOnWall, DeclaredSquare}

InitEdge == (\E d \in EdgeLevels : InitLevel(d)) /\ driver = NoDriver

EdgeSpec == InitEdge /\ [][Next]_vars

\* --------------------------------------------------- constructing the engine
\* Level texts of widths 1..3 and heights 1..2: the declared rows are open
\* with a wall in the last column; row k is written as declared, one
\* character short, with one character more than declared, or with another
\* character in its first column; the text has all the rows or all but the
\* last one.
RowKinds == {"declared", "short", "extra", "other"}

RowText(w, kind) ==
    LET declared == [c \in 1..w |-> IF c = w THEN "w" ELSE " "]
    IN  CASE kind = "declared" -> declared
          [] kind = "short"    -> SubSeq(declared, 1, w - 1)
          [] kind = "extra"    -> declared \o <<"x">>
          [] kind = "other"    -> <<"x">> \o Tail(declared)

ParseLevels ==
    DeclaredLevels \cup
    { Declared(w, h,
               [r \in 1..n |-> RowText(w, IF r = k THEN kind ELSE "declared")],
               IF w > 1 THEN <<PositionNew(0, 0), PositionNew(1, 0)>>
                        ELSE <<PositionNew(0, 0)>>,
               PositionNew(0, h - 1))
        : <<w, h, n, k>> \in { t \in (1..3) \X (1..2) \X (0..2) \X (1..2) :
                                /\ t[3] \in {t[2] - 1, t[2]}
                                /\ t[4] <= t[2] },
          kind \in RowKinds }

\* before from_str there is no engine
InitParse ==
    /\ driver = NoDriver
    /\ level \in ParseLevels
    /\ map = NoGame.map
    /\ snake_head = NoGame.snake_head
    /\ snake_body = NoGame.snake_body
    /\ food = NoGame.food
    /\ direction = "Up"
    /\ increment_size = 0
    /\ result = [NoResult EXCEPT !.kind = "Unparsed"]
    /\ snap = NoResult
    /\ arg = "Up"
    /\ plays = 0
    /\ eaten = 0

\* SnakeGame::from_str(level): the engine, or a panic and no engine
Parse ==
    LET l == from_str(LevelText(level))
    IN  /\ result.kind = "Unparsed"
        /\ IF l.ok
           THEN /\ map' = l.map
                /\ snake_head' = l.snake_head
                /\ snake_body' = l.snake_body
                /\ food' = l.food
                /\ result' = [result EXCEPT !.kind = "Parsed"]
           ELSE /\ result' = [result EXCEPT !.kind = "ParsePanic"]
                /\ UNCHANGED <<map, snake_head, snake_body, food>>
        /\ UNCHANGED <<driver, level, direction, increment_size, snap, arg,
                       plays, eaten>>

SnapshotParsed == result.kind = "Parsed" /\ Snapshot

NextParse == Parse \/ SnapshotParsed

ParseSpec == InitParse /\ [][NextParse]_vars

\* -------------------------------------------------------- the plugin
\* SnakePlugin as bevy runs it: every frame (App::update) runs each system
\* once.  play is labelled "play" and game_over runs after it; game_tick,
\* change_direction and play have no order among them, and game_tick and
\* change_direction none with game_over.  An EventReader sees, once, every
\* event sent since it last ran.
MaxFrames == 2

MaxKeys == 2

\* KeyboardInput.key_code: an arrow key, another key, or no key code
KeyCodes == {"Up", "Down", "Left", "Right", "Space", "NoKeyCode"}

Systems == {"game_tick", "change_direction", "play", "game_over"}

DriverLevels == {DeclaredTest, DeclaredTall}

\* SnakePlugin::build: the engine parsed from the level, its snapshot, the
\* direction Up, a running timer and empty event queues
InitDriver ==
    /\ \E d \in DriverLevels : InitLevel(d)
    /\ driver = [NoDriver EXCEPT
                   !.snapshot = snapshot_with_food_ate(snake_head, snake_body,
                                                       food, FALSE)]

EngineVars ==
    <<level, map, snake_head, snake_body, food, direction, increment_size,
      result, snap, arg, plays, eaten>>

\* a KeyboardInput event arrives between two frames
KeyboardInput(key) ==
    /\ driver.ran = {}
    /\ Len(driver.keys) < MaxKeys
    /\ driver' = [driver EXCEPT !.keys = Append(@, key)]
    /\ UNCHANGED EngineVars

\* game_tick: tick the timer and send GameTick when it has finished;
\* finished says whether the time of this frame completes the period of the
\* timer.  A paused timer does not advance and does not finish.
game_tick(finished) ==
    /\ "game_tick" \notin driver.ran
    /\ driver' = [driver EXCEPT
                    !.ran = @ \cup {"game_tick"},
                    !.ticks = IF ~ driver.paused /\ finished THEN @ + 1 ELSE @]
    /\ UNCHANGED EngineVars

IsArrow(key) == key \in {"Up", "Down", "Left", "Right"}

\* change_direction that takes the first arrow key of the frame
change_direction_first ==
    LET arrows == SelectSeq(driver.keys, IsArrow)
    IN  /\ "change_direction" \notin driver.ran
        /\ driver' = [driver EXCEPT
                        !.ran = @ \cup {"change_direction"},
                        !.keys = <<>>,
                        !.current_direction =
                            IF Len(arrows) = 0 THEN @ ELSE arrows[1]]
        /\ UNCHANGED EngineVars

\* change_direction: the last arrow key among the events read, if any
change_direction ==
    LET arrows == SelectSeq(driver.keys, IsArrow)
    IN  /\ "change_direction" \notin driver.ran
        /\ driver' = [driver EXCEPT
                        !.ran = @ \cup {"change_direction"},
                        !.keys = <<>>,
                        !.current_direction =
                            IF Len(arrows) = 0 THEN @
                            ELSE arrows[Len(arrows)]]
        /\ UNCHANGED EngineVars

\* play that stores the snapshot resource only
play_store(r) == [driver EXCEPT !.ran = @ \cup {"play"}, !.ticks = 0,
                                !.snapshot = r]

\* what play does with the result r of SnakeGame::play
play_match(r) ==
    IF r.kind = "Ok"
    THEN [driver EXCEPT !.ran = @ \cup {"play"}, !.ticks = 0,
                        !.snapshot = r]
    ELSE [driver EXCEPT !.ran = @ \cup {"play"}, !.ticks = 0,
                        !.game_over_events = Append(@, r),
                        !.unread = @ + 1]

\* play: return when no GameTick was read, else one call of
\* SnakeGame::play(*current_direction)
play ==
    /\ "play" \notin driver.ran
    /\ IF driver.ticks = 0
       THEN /\ driver' = [driver EXCEPT !.ran = @ \cup {"play"}]
            /\ UNCHANGED EngineVars
       ELSE /\ PlayBody(driver.current_direction)
            /\ arg' = driver.current_direction
            /\ driver' = play_match(result')

\* game_over: pause the timer when a GameOverEvent was read
game_over ==
    /\ "play" \in driver.ran
    /\ "game_over" \notin driver.ran
    /\ driver' = [driver EXCEPT
                    !.ran = @ \cup {"game_over"},
                    !.unread = 0,
                    !.paused = IF driver.unread = 0 THEN @ ELSE TRUE]
    /\ UNCHANGED EngineVars

\* the end of App::update
Update ==
    /\ driver.ran = Systems
    /\ driver.frames < MaxFrames
    /\ driver' = [driver EXCEPT !.ran = {}, !.frames = @ + 1]
    /\ UNCHANGED EngineVars

NextDriver ==
    \/ \E key \in KeyCodes : KeyboardInput(key)
    \/ \E finished \in BOOLEAN : game_tick(finished)
    \/ change_direction
    \/ play
    \/ game_over
    \/ Update

DriverSpec == InitDriver /\ [][NextDriver]_vars

\* =================================================================== claims

\* C1 as stated: every play(d) with d not the reverse of the stored direction
\* that returns Ok moves the head by one unit step in d (Up: y+1, Down: y-1,
\* Left: x-1, Right: x+1) and returns a snake as long as the one before the
\* call.
C1_AsStated ==
    [][ LET nonReversing ==
                <<direction, arg'>> \notin
                    { <<"Up", "Down">>, <<"Down", "Up">>,
                      <<"Left", "Right">>, <<"Right", "Left">> }
            dx == CASE arg' = "Left" -> -1 [] arg' = "Right" -> 1 [] OTHER -> 0
            dy == CASE arg' = "Up" -> 1 [] arg' = "Down" -> -1 [] OTHER -> 0
        IN  (plays' = plays + 1 /\ nonReversing /\ result'.kind = "Ok")
            => /\ snake_head'.x = snake_head.x + dx
               /\ snake_head'.y = snake_head.y + dy
               /\ Len(result'.snake) = 1 + Len(snake_body) ]_vars

\* C1 amended: every play(d) with d not the reverse of the stored direction
\* that returns Ok moves the head by one unit step in d, the step being taken
\* in wrapping usize arithmetic, and returns a snake whose length is the
\* length before the call plus the growth counter before the call.
C1_HeadStepAndLength ==
    [][ LET nonReversing ==
                <<direction, arg'>> \notin
                    { <<"Up", "Down">>, <<"Down", "Up">>,
                      <<"Left", "Right">>, <<"Right", "Left">> }
            dx == CASE arg' = "Left" -> -1 [] arg' = "Right" -> 1 [] OTHER -> 0
            dy == CASE arg' = "Up" -> 1 [] arg' = "Down" -> -1 [] OTHER -> 0
        IN  (plays' = plays + 1 /\ nonReversing /\ result'.kind = "Ok")
            => /\ snake_head'.x = (snake_head.x + dx) % UsizeModulus
               /\ snake_head'.y = (snake_head.y + dy) % UsizeModulus
               /\ result'.snake[1] = snake_head'
               /\ Len(result'.snake)
                    = 1 + Len(snake_body) + increment_size ]_vars

\* C1 witness: a non-reversing Left play returned Ok and the snake grew
C1_Witness ==
    /\ result.kind = "Ok"
    /\ arg = direction
    /\ arg = "Left"
    /\ Len(result.snake) = 3
    /\ map = LevelWide.map

\* C2: every play made while the growth counter is 0 that returns Ok returns
\* the snake [new head] followed by the old snake (old head, old body) with
\* its last element removed.
C2_ShiftWithLag ==
    [][ LET old == <<snake_head>> \o snake_body
        IN  (plays' = plays + 1 /\ increment_size = 0 /\ result'.kind = "Ok")
            => /\ result'.snake
                    = <<snake_head'>> \o SubSeq(old, 1, Len(old) - 1)
               /\ <<snake_head'>> \o snake_body' = result'.snake ]_vars

\* C2 witness: the first play (growth counter 0) of a snake with a body
\* returned Ok
C2_Witness ==
    /\ plays = 1
    /\ result.kind = "Ok"
    /\ Len(result.snake) >= 2

\* C3: a play(d) with d the exact opposite of the stored direction is a step
\* that play(stored direction) can take: it moves the head one step in the
\* stored direction and leaves the stored direction unchanged, whatever the
\* call returns.
C3_ReversalIgnored ==
    [][ LET reversing ==
                <<direction, arg'>> \in
                    { <<"Up", "Down">>, <<"Down", "Up">>,
                      <<"Left", "Right">>, <<"Right", "Left">> }
            dx == CASE direction = "Left" -> -1 [] direction = "Right" -> 1
                    [] OTHER -> 0
            dy == CASE direction = "Up" -> 1 [] direction = "Down" -> -1
                    [] OTHER -> 0
        IN  (plays' = plays + 1 /\ reversing)
            => /\ PlayBody(direction)
               /\ direction' = direction
               /\ snake_head'.x = (snake_head.x + dx) % UsizeModulus
               /\ snake_head'.y = (snake_head.y + dy) % UsizeModulus ]_vars

\* C3 witness: a reversing request was played and the call returned Ok
C3_Witness ==
    /\ plays > 0
    /\ result.kind = "Ok"
    /\ <<direction, arg>> \in { <<"Up", "Down">>, <<"Down", "Up">>,
                                <<"Left", "Right">>, <<"Right", "Left">> }

\* C4: play returns OnWall(p) exactly when the new head is out of bounds or
\* on a Wall cell, p is that new head, and the wall test wins over the
\* self-collision test.
C4_OnWallExactly ==
    [][ LET p == snake_head'
            outside == p.x >= map.dimension[1] \/ p.y >= map.dimension[2]
            wall == outside \/ map.rows[p.y + 1][p.x + 1] = "Wall"
        IN  plays' = plays + 1
            => /\ (result'.kind = "OnWall") <=> wall
               /\ result'.kind = "OnWall" => result'.position = p
               /\ (wall /\ \E i \in 1..Len(snake_body') : snake_body'[i] = p)
                    => result'.kind = "OnWall" ]_vars

\* C4 witness: OnWall was returned for a wall cell that a body segment
\* occupies as well
C4_Witness ==
    /\ result.kind = "OnWall"
    /\ result.position = snake_head
    /\ \E i \in 1..Len(snake_body) : snake_body[i] = snake_head

\* C5: play returns OnSnake(p) exactly when the new head is neither out of
\* bounds nor on a Wall cell and equals a segment of the body as updated by
\* this tick; p is the new head.
C5_OnSnakeExactly ==
    [][ LET p == snake_head'
            outside == p.x >= map.dimension[1] \/ p.y >= map.dimension[2]
            wall == outside \/ map.rows[p.y + 1][p.x + 1] = "Wall"
            onBody == \E i \in 1..Len(snake_body') : snake_body'[i] = p
        IN  plays' = plays + 1
            => /\ (result'.kind = "OnSnake") <=> (~ wall /\ onBody)
               /\ result'.kind = "OnSnake" => result'.position = p ]_vars

\* C5 witness: a play returned OnSnake
C5_Witness ==
    /\ result.kind = "OnSnake"
    /\ result.position = snake_head

\* C6: an Ok play reports food_ate = TRUE exactly when the new head equals
\* the food position held before the call, and snapshot() always reports
\* food_ate = FALSE.
C6_FoodAteFlag ==
    [][ /\ (plays' = plays + 1 /\ result'.kind = "Ok")
            => (result'.food_ate <=> snake_head' = food)
        /\ plays' = plays
            => (snap'.kind = "Ok" /\ snap'.food_ate = FALSE) ]_vars

\* C6 witness: a play ate food and a snapshot was taken
C6_Witness ==
    /\ result.kind = "Ok"
    /\ result.food_ate
    /\ snap.kind = "Ok"

\* C7 as stated: the length is unchanged on a tick that ate food, the next
\* play keeps the tail and puts the previous head behind the new head, and
\* a play whose preceding play did not eat keeps the length.
C7_AsStated ==
    [][ LET prevAte == result.kind = "Ok" /\ result.food_ate
        IN  plays' = plays + 1
            => /\ (result'.kind = "Ok" /\ result'.food_ate)
                    => Len(snake_body') = Len(snake_body)
               /\ prevAte => snake_body' = <<snake_head>> \o snake_body
               /\ ~ prevAte => Len(snake_body') = Len(snake_body) ]_vars

\* C7 amended: on a tick that ate food the length is unchanged unless the
\* preceding play ate food too (then the tick grows by one); the play after
\* a play that ate keeps the tail and puts the previous head behind the new
\* head; a play whose preceding play did not eat keeps the length.
C7_GrowthAfterEating ==
    [][ LET prevAte == result.kind = "Ok" /\ result.food_ate
        IN  plays' = plays + 1
            => /\ (result'.kind = "Ok" /\ result'.food_ate)
                    => Len(snake_body')
                         = Len(snake_body) + (IF prevAte THEN 1 ELSE 0)
               /\ prevAte => snake_body' = <<snake_head>> \o snake_body
               /\ ~ prevAte => Len(snake_body') = Len(snake_body) ]_vars

\* C7 witness: the second of two consecutive plays that both ate food, the
\* snake of two segments has grown to three
C7_Witness ==
    /\ plays = 2
    /\ result.kind = "Ok"
    /\ result.food_ate
    /\ Len(result.snake) = 3
    /\ increment_size = 1

\* C8 as stated: neither the head nor the food is ever out of bounds or on a
\* Wall cell, also after a play that returned an error.
C8_AsStated ==
    LET bad(p) == \/ p.x >= map.dimension[1]
                  \/ p.y >= map.dimension[2]
                  \/ map.rows[p.y + 1][p.x + 1] = "Wall"
    IN  ~ bad(snake_head) /\ ~ bad(food)

\* C8 amended: the food is never out of bounds or on a Wall cell, and the
\* head is out of bounds or on a Wall cell only in the state left by a play
\* that returned OnWall.
C8_HeadAndFoodOffWalls ==
    LET bad(p) == \/ p.x >= map.dimension[1]
                  \/ p.y >= map.dimension[2]
                  \/ map.rows[p.y + 1][p.x + 1] = "Wall"
    IN  /\ ~ bad(food)
        /\ result.kind # "OnWall" => ~ bad(snake_head)
        /\ result.kind = "OnWall" => bad(snake_head)

\* C8 witness: food was redrawn after being eaten, later than a failed play
C8_Witness ==
    /\ result.kind = "Ok"
    /\ result.food_ate
    /\ food = result.food
    /\ plays >= 2

\* C9: consecutive positions of [head, body...] are at Manhattan distance 1
\* in every reachable state.
C9_ContiguousChain ==
    LET snake == <<snake_head>> \o snake_body
        abs(n) == IF n < 0 THEN -n ELSE n
    IN  \A i \in 1..(Len(snake) - 1) :
            abs(snake[i].x - snake[i + 1].x)
              + abs(snake[i].y - snake[i + 1].y) = 1

\* C10: whenever a play eats food, the new food position is in bounds, not
\* Wall, not the new head and not a segment of the updated body, and the
\* positions create_new_food can return are all the cells of that kind.
C10_FoodDrawnFromAllFreeCells ==
    [][ LET free == { p \in { PositionNew(x, y) :
                                x \in 0..(map.dimension[1] - 1),
                                y \in 0..(map.dimension[2] - 1) } :
                        /\ map.rows[p.y + 1][p.x + 1] # "Wall"
                        /\ p # snake_head'
                        /\ \A i \in 1..Len(snake_body') :
                               snake_body'[i] # p }
        IN  (plays' = plays + 1 /\ result'.kind = "Ok" /\ result'.food_ate)
            => /\ food' \in free
               /\ create_new_food(map, snake_head', snake_body') = free ]_vars

\* C11: whenever play is inside the retry loop of create_new_food and some
\* cell of the grid is in bounds, not Wall, not the head and not a body
\* segment, the loop eventually ends.
C11_FoodLoopTerminates ==
    (/\ result.kind = "InFoodLoop"
     /\ \E x \in 0..(map.dimension[1] - 1), y \in 0..(map.dimension[2] - 1) :
            /\ map.rows[y + 1][x + 1] # "Wall"
            /\ PositionNew(x, y) # snake_head
            /\ \A i \in 1..Len(snake_body) :
                   snake_body[i] # PositionNew(x, y))
    ~> (result.kind # "InFoodLoop")

\* C13: snapshot() changes no field of the engine and returns [head]
\* followed by the body from neck to tail, the current food and
\* food_ate = FALSE; taken right after a play that returned Ok it equals
\* that Ok value in snake and food.
C13_SnapshotIsPureRead ==
    [][ plays' = plays
        => /\ UNCHANGED <<map, snake_head, snake_body, food, direction,
                          increment_size>>
           /\ snap'.kind = "Ok"
           /\ Len(snap'.snake) = 1 + Len(snake_body)
           /\ snap'.snake[1] = snake_head
           /\ \A i \in 1..Len(snake_body) : snap'.snake[i + 1] = snake_body[i]
           /\ snap'.food = food
           /\ snap'.food_ate = FALSE
           /\ result.kind = "Ok"
                => /\ snap'.snake = result.snake
                   /\ snap'.food = result.food ]_vars

\* C13 witness: a snapshot taken right after a play that ate food, equal to
\* the Ok value but for food_ate
C13_Witness ==
    /\ result.kind = "Ok"
    /\ result.food_ate
    /\ snap.kind = "Ok"
    /\ ~ snap.food_ate
    /\ snap.snake = result.snake
    /\ snap.food = result.food
    /\ Len(snap.snake) >= 2

\* C16: for every position p, on_walls(p) holds iff p.x >= width or
\* p.y >= height or the cell at p is Wall, and for p out of bounds it is
\* evaluated without indexing the grid (an index outside the rows is an
\* evaluation error).
C16_OnWallsIff ==
    LET w == map.dimension[1]
        h == map.dimension[2]
        coords == 0..(w + h) \cup {UsizeModulus - 1}
    IN  \A x \in coords, y \in coords :
            on_walls(map, PositionNew(x, y))
              <=> IF x < w /\ y < h
                  THEN map.rows[y + 1][x + 1] = "Wall"
                  ELSE TRUE

\* C16 witness: play has called on_walls on a position whose x wrapped
\* below 0 and returned OnWall for it
C16_Witness ==
    /\ result.kind = "OnWall"
    /\ result.position.x = UsizeModulus - 1
    /\ result.position.y < map.dimension[2]

\* C17 as stated: on the level of create_game, play(Up) gives
\* [(2,3),(2,2)], then [(2,4),(2,3)], three further play(Up) succeed up to
\* head (2,7), and the sixth call returns OnWall((2,8)).
C17_AsStated ==
    [][ (/\ map = LevelTest.map
         /\ plays' = plays + 1
         /\ arg' = "Up"
         /\ direction = "Up"
         /\ snake_head = PositionNew(2, 2 + plays))
        => CASE plays = 0 ->
                  /\ result'.kind = "Ok"
                  /\ result'.snake = <<PositionNew(2, 3), PositionNew(2, 2)>>
             [] plays = 1 ->
                  /\ result'.kind = "Ok"
                  /\ result'.snake = <<PositionNew(2, 4), PositionNew(2, 3)>>
             [] plays \in {2, 3, 4} ->
                  /\ result'.kind = "Ok"
                  /\ result'.snake[1] = PositionNew(2, 3 + plays)
             [] plays = 5 ->
                  /\ result'.kind = "OnWall"
                  /\ result'.position = PositionNew(2, 8)
             [] OTHER -> TRUE ]_vars

\* C17 amended: on the level of create_game, play(Up) gives [(2,3),(2,2)],
\* then [(2,4),(2,3)], two further play(Up) succeed up to head (2,6), and
\* the fifth call returns OnWall((2,7)).
C17_UpTillWall ==
    [][ (/\ map = LevelTest.map
         /\ plays' = plays + 1
         /\ arg' = "Up"
         /\ direction = "Up"
         /\ snake_head = PositionNew(2, 2 + plays))
        => CASE plays = 0 ->
                  /\ result'.kind = "Ok"
                  /\ result'.snake = <<PositionNew(2, 3), PositionNew(2, 2)>>
             [] plays = 1 ->
                  /\ result'.kind = "Ok"
                  /\ result'.snake = <<PositionNew(2, 4), PositionNew(2, 3)>>
             [] plays \in {2, 3} ->
                  /\ result'.kind = "Ok"
                  /\ result'.snake
                       = <<PositionNew(2, 3 + plays), PositionNew(2, 2 + plays)>>
             [] plays = 4 ->
                  /\ result'.kind = "OnWall"
                  /\ result'.position = PositionNew(2, 7)
             [] OTHER -> TRUE ]_vars

\* C17 witness: the fifth play(Up) on the level of create_game returned
\* OnWall((2,7))
C17_Witness ==
    /\ map = LevelTest.map
    /\ plays = 5
    /\ arg = "Up"
    /\ result.kind = "OnWall"
    /\ result.position = PositionNew(2, 7)
    /\ snake_body = <<PositionNew(2, 6)>>

\* C18: when play returns OnWall or OnSnake the head is left at the
\* position carried by the error, the body update of the tick (growth with
\* the decrement of the counter, or shift) stays applied, and the stored
\* direction and the food are unchanged.
C18_CommitThenFail ==
    [][ (plays' = plays + 1 /\ result'.kind \in {"OnWall", "OnSnake"})
        => /\ snake_head' = result'.position
           /\ snake_head' # snake_head
           /\ IF increment_size > 0
              THEN /\ snake_body' = <<snake_head>> \o snake_body
                   /\ increment_size' = increment_size - 1
              ELSE /\ increment_size' = 0
                   /\ IF snake_body = <<>>
                      THEN snake_body' = <<>>
                      ELSE snake_body' = <<snake_head>>
                             \o SubSeq(snake_body, 1, Len(snake_body) - 1)
           /\ direction' = direction
           /\ food' = food ]_vars

\* C18 witness: a play with an allowed turn failed and the stored direction
\* is still the one before the call
C18_Witness ==
    /\ result.kind \in {"OnWall", "OnSnake"}
    /\ snake_head = result.position
    /\ <<direction, arg>> \in { <<"Up", "Left">>, <<"Up", "Right">>,
                                <<"Left", "Up">>, <<"Left", "Down">>,
                                <<"Right", "Up">>, <<"Right", "Down">>,
                                <<"Down", "Left">>, <<"Down", "Right">> }
    /\ Len(snake_body) >= 1

\* C19: a play made after a play that returned OnWall or OnSnake is an
\* ordinary step from the state the failed play left: the head moves one
\* step in the resolved direction, the body is updated, and a result is
\* returned, which can be Ok.
C19_NoLatch ==
    [][ (plays' = plays + 1 /\ result.kind \in {"OnWall", "OnSnake"})
        => LET dir == IF <<direction, arg'>> \in
                            { <<"Up", "Down">>, <<"Down", "Up">>,
                              <<"Left", "Right">>, <<"Right", "Left">> }
                      THEN direction ELSE arg'
               dx == CASE dir = "Left" -> -1 [] dir = "Right" -> 1
                       [] OTHER -> 0
               dy == CASE dir = "Up" -> 1 [] dir = "Down" -> -1
                       [] OTHER -> 0
           IN  /\ snake_head'.x = (snake_head.x + dx) % UsizeModulus
               /\ snake_head'.y = (snake_head.y + dy) % UsizeModulus
               /\ snake_body # <<>> => snake_body'[1] = snake_head
               /\ Len(snake_body') = Len(snake_body) + increment_size
               /\ result'.kind \in {"Ok", "OnWall", "OnSnake"}
               /\ result'.kind = "Ok" => result'.snake[1] = snake_head' ]_vars

\* C19 witness: a play returned Ok although the play before it had returned
\* OnWall: the neck is the wall or outside cell the failed play left the
\* head on
C19_Witness ==
    /\ result.kind = "Ok"
    /\ Len(snake_body) >= 1
    /\ LET p == snake_body[1]
       IN  \/ p.x >= map.dimension[1]
           \/ p.y >= map.dimension[2]
           \/ map.rows[p.y + 1][p.x + 1] = "Wall"

\* C20: in every reachable state the growth counter is 0 or 1 and the snake
\* length plus the growth counter equals the initial length plus the number
\* of play calls that returned food_ate = TRUE; no step makes the snake
\* shorter.
C20_LengthAccounting ==
    [][ LET initial == CHOOSE l \in Levels : l.map = map
            ok(len, inc, n) ==
                /\ inc \in {0, 1}
                /\ len + inc = 1 + Len(initial.snake_body) + n
        IN  /\ ok(1 + Len(snake_body), increment_size, eaten)
            /\ ok(1 + Len(snake_body'), increment_size', eaten')
            /\ Len(snake_body') >= Len(snake_body)
            /\ eaten' - eaten
                 = (IF plays' = plays + 1 /\ result'.kind = "Ok"
                       /\ result'.food_ate THEN 1 ELSE 0) ]_vars

\* C20 witness: food was eaten twice, the snake of the wide level has grown
\* once and the second growth is pending
C20_Witness ==
    /\ eaten = 2
    /\ increment_size = 1
    /\ Len(snake_body) = 2
    /\ map = LevelWide.map

\* C14: parsing a well-formed level (height rows of at least width
\* characters, the first width of each ' ' or 'w') gives an engine whose
\* head, body and food are the declared ones in the declared order, with
\* direction Up, counter 0 and dimension (width, height); snapshot() on it
\* returns the declared snake and food with food_ate false.
C14_ParseReproducesLevel ==
    LET wellFormed ==
            /\ Len(level.rows) = level.h
            /\ \A r \in 1..level.h :
                   /\ Len(level.rows[r]) >= level.w
                   /\ \A c \in 1..level.w : level.rows[r][c] \in {" ", "w"}
    IN  (wellFormed /\ result.kind # "Unparsed") =>
            /\ result.kind = "Parsed"
            /\ snake_head = level.snake[1]
            /\ snake_body = Tail(level.snake)
            /\ food = level.food
            /\ direction = "Up"
            /\ increment_size = 0
            /\ map.dimension = <<level.w, level.h>>
            /\ snap.kind = "Ok" =>
                   /\ snap.snake = level.snake
                   /\ snap.food = level.food
                   /\ snap.food_ate = FALSE

C14_Witness ==
    /\ level = DeclaredTest
    /\ result.kind = "Parsed"
    /\ snap.kind = "Ok"
    /\ snap.snake = <<PositionNew(2, 2), PositionNew(2, 1)>>

\* C15: parsing fails, leaving no engine, when a grid row has fewer
\* characters than the declared width, when there are fewer grid rows than
\* the declared height, or when one of the first width characters of a row
\* is neither ' ' nor 'w'; a text whose only irregularity is characters
\* beyond the declared width is parsed.
C15_MalformedLevelFails ==
    LET short == \E r \in 1..Len(level.rows) : Len(level.rows[r]) < level.w
        fewer == Len(level.rows) < level.h
        other == \E r \in 1..Len(level.rows) :
                     \E c \in 1..Len(level.rows[r]) :
                         c <= level.w /\ level.rows[r][c] \notin {" ", "w"}
    IN  result.kind # "Unparsed" =>
            IF short \/ fewer \/ other
            THEN result.kind = "ParsePanic" /\ map = NoGame.map
            ELSE result.kind = "Parsed"

\* C21: a play that moves Left with the head at x = 0, or Down with the head
\* at y = 0, computes the coordinate as 0 - 1 = 2^w - 1; that coordinate is
\* not below the dimension, so the bounds test answers before any cell is
\* indexed and the call returns OnWall carrying the wrapped position, with
\* or without a wall ring around the grid.
C21_WrapCaughtByBounds ==
    [][ LET reversal == <<direction, arg'>> \in
                { <<"Up", "Down">>, <<"Down", "Up">>,
                  <<"Left", "Right">>, <<"Right", "Left">> }
            dir == IF reversal THEN direction ELSE arg'
            wrapped == (2 ^ UsizeBits) - 1
        IN  /\ (plays' = plays + 1 /\ dir = "Left" /\ snake_head.x = 0)
               => /\ wrapped >= map.dimension[1]
                  /\ snake_head' = [x |-> wrapped, y |-> snake_head.y]
                  /\ result'.kind = "OnWall"
                  /\ result'.position = snake_head'
            /\ (plays' = plays + 1 /\ dir = "Down" /\ snake_head.y = 0)
               => /\ wrapped >= map.dimension[2]
                  /\ snake_head' = [x |-> snake_head.x, y |-> wrapped]
                  /\ result'.kind = "OnWall"
                  /\ result'.position = snake_head' ]_vars

\* C21 witness: on the open 2x3 level, which has no wall at all, a play
\* returned OnWall for the column 2^w - 1
C21_Witness ==
    /\ map = LevelTall.map
    /\ result.kind = "OnWall"
    /\ result.position.x = (2 ^ UsizeBits) - 1
    /\ snake_head = result.position

\* C22 as stated: from a level whose food is not on the snake, the food is
\* never on the head or on a body segment after any sequence of plays, and
\* the food drawn by an eating play differs from the food eaten.
C22_AsStated ==
    [][ LET declared == {level.snake[i] : i \in 1..Len(level.snake)}
            snake == {snake_head'} \cup
                     {snake_body'[i] : i \in 1..Len(snake_body')}
        IN  level.food \notin declared
            => /\ food' \notin snake
               /\ (plays' = plays + 1 /\ result'.kind = "Ok"
                     /\ result'.food_ate) => food' # food ]_vars

\* C22 amended: the same, from a level whose food is neither on the snake
\* nor on a Wall cell nor out of bounds.
C22_FoodOffSnake ==
    [][ LET declared == {level.snake[i] : i \in 1..Len(level.snake)}
            f == level.food
            onWall == \/ f.x >= level.w
                      \/ f.y >= level.h
                      \/ level.rows[f.y + 1][f.x + 1] = "w"
            snake == {snake_head'} \cup
                     {snake_body'[i] : i \in 1..Len(snake_body')}
        IN  (f \notin declared /\ ~ onWall)
            => /\ food' \notin snake
               /\ (plays' = plays + 1 /\ result'.kind = "Ok"
                     /\ result'.food_ate) => food' # food ]_vars

\* C22 witness: food has been eaten twice and the snake has four cells, none
\* of them the food
C22_Witness ==
    /\ eaten = 2
    /\ Len(snake_body) + increment_size = 3
    /\ food # level.food
    /\ food \notin ({snake_head} \cup {snake_body[i] : i \in 1..Len(snake_body)})

\* C23 as stated: the body is updated before the self-collision test.  A
\* play made with the growth counter at 0 whose new head is the cell the
\* tail had before the call does not return OnSnake; the same move made
\* with the counter at 1 returns OnSnake.
C23_AsStated ==
    [][ (/\ plays' = plays + 1
         /\ Len(snake_body) > 0
         /\ snake_head' = snake_body[Len(snake_body)])
        => /\ increment_size = 0 => result'.kind # "OnSnake"
           /\ increment_size = 1 => result'.kind = "OnSnake" ]_vars

\* C23 amended: the same for a play that starts with the cells of the snake
\* pairwise distinct, inside the grid and on Empty cells.
C23_TailVacatedUnlessGrowing ==
    [][ LET snake == <<snake_head>> \o snake_body
            distinct == \A i, j \in 1..Len(snake) :
                            snake[i] = snake[j] => i = j
            offWalls == \A i \in 1..Len(snake) :
                            /\ snake[i].x < map.dimension[1]
                            /\ snake[i].y < map.dimension[2]
                            /\ map.rows[snake[i].y + 1][snake[i].x + 1]
                                 = "Empty"
        IN  (/\ plays' = plays + 1
             /\ distinct /\ offWalls
             /\ Len(snake_body) > 0
             /\ snake_head' = snake_body[Len(snake_body)])
            => /\ increment_size = 0 => result'.kind # "OnSnake"
               /\ increment_size = 1 => result'.kind = "OnSnake" ]_vars

\* C23 witness: snapshot() was taken, then a play kept the tail (the body is
\* now the whole snake of the snapshot) and returned OnSnake for the cell of
\* that tail
C23_Witness ==
    /\ snap.kind = "Ok"
    /\ \A i, j \in 1..Len(snap.snake) : snap.snake[i] = snap.snake[j] => i = j
    /\ \A i \in 1..Len(snap.snake) :
           /\ snap.snake[i].x < map.dimension[1]
           /\ snap.snake[i].y < map.dimension[2]
           /\ map.rows[snap.snake[i].y + 1][snap.snake[i].x + 1] = "Empty"
    /\ result.kind = "OnSnake"
    /\ snake_body = snap.snake
    /\ result.position = snap.snake[Len(snap.snake)]

\* the other case of C23: snapshot() was taken, then a play shifted the body
\* of three or more segments and put the head on the cell of the old tail
C23_WitnessVacated ==
    /\ snap.kind = "Ok"
    /\ \A i, j \in 1..Len(snap.snake) : snap.snake[i] = snap.snake[j] => i = j
    /\ \A i \in 1..Len(snap.snake) :
           /\ snap.snake[i].x < map.dimension[1]
           /\ snap.snake[i].y < map.dimension[2]
           /\ map.rows[snap.snake[i].y + 1][snap.snake[i].x + 1] = "Empty"
    /\ result.kind = "Ok"
    /\ Len(snake_body) >= 3
    /\ Len(snap.snake) = Len(snake_body) + 1
    /\ snake_body = SubSeq(snap.snake, 1, Len(snake_body))
    /\ snake_head = snap.snake[Len(snap.snake)]

\* C24: no play, returning Ok or an error, changes the cells of the grid or
\* its dimension, and a play that does not eat (Ok with food_ate false, or an
\* error) leaves the food where it was.
C24_PlayFrame ==
    [][ plays' = plays + 1
        => /\ map'.rows = map.rows
           /\ map'.dimension = map.dimension
           /\ ~ (result'.kind = "Ok" /\ result'.food_ate) => food' = food
      ]_vars

\* C24 witness: after food was eaten and redrawn, a play returned an error
\* and the grid is the one parsed from the level text
C24_Witness ==
    /\ eaten >= 1
    /\ food # level.food
    /\ result.kind \in {"OnWall", "OnSnake"}
    /\ map.dimension = <<level.w, level.h>>
    /\ \A r \in 1..level.h : \A c \in 1..level.w :
           (map.rows[r][c] = "Wall") <=> (level.rows[r][c] = "w")

\* C25: the requested direction of the driver starts as Up; a run of
\* change_direction sets it to the last arrow key among the keyboard events
\* that arrived since its previous run and keeps it when there is none (no
\* event, or only other keys and events without key code); nothing else
\* changes it, and a call of the engine's play is given its current value.
C25_LastArrowWins ==
    /\ driver.current_direction = "Up"
    /\ [][ LET keys == driver.keys
               arrowAt == { i \in 1..Len(keys) :
                              keys[i] \in {"Up", "Down", "Left", "Right"} }
               last == CHOOSE i \in arrowAt : \A j \in arrowAt : j <= i
               runs == /\ "change_direction" \notin driver.ran
                       /\ "change_direction" \in driver'.ran
           IN  /\ (runs /\ arrowAt # {})
                   => driver'.current_direction = keys[last]
               /\ (~ runs \/ arrowAt = {})
                   => driver'.current_direction = driver.current_direction
               /\ plays' = plays + 1 => arg' = driver.current_direction ]_vars

\* C25 witness: in a frame after the first, change_direction has run, the
\* requested direction is Left as set by a key, and it was given to play
C25_Witness ==
    /\ driver.frames >= 1
    /\ {"change_direction", "play"} \subseteq driver.ran
    /\ driver.ticks = 0
    /\ driver.current_direction = "Left"
    /\ plays >= 1
    /\ arg = "Left"

\* C26: one run of the play system calls the engine's play at most once: not
\* at all when no GameTick is pending, once when one or more are.  When the
\* call returns Ok the snapshot resource becomes the result; when it returns
\* an error the snapshot resource stays and one GameOverEvent carrying the
\* error is sent.  No other system calls the engine's play.
C26_PlayOncePerTick ==
    [][ LET runs == "play" \notin driver.ran /\ "play" \in driver'.ran
            sent == driver.game_over_events
        IN  /\ plays' # plays => runs
            /\ (runs /\ driver.ticks = 0)
                => /\ plays' = plays
                   /\ driver'.snapshot = driver.snapshot
                   /\ driver'.game_over_events = sent
            /\ (runs /\ driver.ticks > 0)
                => /\ plays' = plays + 1
                   /\ driver'.ticks = 0
                   /\ result'.kind = "Ok"
                        => /\ driver'.snapshot = result'
                           /\ driver'.game_over_events = sent
                   /\ result'.kind # "Ok"
                        => /\ driver'.snapshot = driver.snapshot
                           /\ driver'.game_over_events = Append(sent, result')
      ]_vars

\* C26 witness: a call returned Ok and a later one an error: one
\* GameOverEvent was sent and the snapshot resource is still the Ok result
C26_Witness ==
    /\ plays = 2
    /\ Len(driver.game_over_events) = 1
    /\ driver.game_over_events[1] = result
    /\ driver.snapshot.kind = "Ok"
    /\ driver.snapshot.snake[1] # snake_head

\* C27: once a GameOverEvent has been sent, no GameTick is sent any more,
\* the engine's play is not called again and the engine does not change;
\* the timer is paused by the end of the frame.
C27_NoPlayAfterGameOver ==
    [][ Len(driver.game_over_events) > 0
        => /\ driver'.ticks <= driver.ticks
           /\ plays' = plays
           /\ <<snake_head', snake_body', food', direction', increment_size'>>
                = <<snake_head, snake_body, food, direction, increment_size>>
           /\ driver'.ran = {} => driver'.paused ]_vars

====
